---- MODULE Spec2Model ----
(***************************************************************************)
(* Micro-Actuary (src/microrisks.py): a Streamlit script that is re-run    *)
(* from top to bottom on every user interaction.  The model keeps the      *)
(* widget values, st.session_state, the estimator's call to the text       *)
(* generation service, and the values the evaluation part of the script    *)
(* derives on each pass.                                                   *)
(*                                                                         *)
(* Python floats are IEEE-754 doubles.  All numbers of the script are      *)
(* dyadic rationals; they are kept exactly as sg * mag * 2^ex, mag an odd  *)
(* natural number of any size, and every float operation rounds its exact  *)
(* result to 53 significant bits, ties to even, as the hardware does.      *)
(* Exponents stay far from the double's limits for the inputs considered,  *)
(* so overflow and subnormals do not arise.                                *)
(***************************************************************************)
EXTENDS Integers, Sequences, FiniteSets, TLC

MaxOf(x, y) == IF x >= y THEN x ELSE y

MinOf(x, y) == IF x <= y THEN x ELSE y

AbsInt(n) == IF n < 0 THEN -n ELSE n

SignInt(n) == IF n < 0 THEN -1 ELSE IF n = 0 THEN 0 ELSE 1

RECURSIVE Pow2(_)
Pow2(n) == IF n <= 0 THEN 1 ELSE 2 * Pow2(n - 1)

\* bits needed to write n
RECURSIVE BitLen(_)
BitLen(n) == IF n = 0 THEN 0 ELSE 1 + BitLen(n \div 2)

\* significant bits of a double
MantissaBits == 53

(***************************************************************************)
(* Natural numbers of any size: sequences of LimbBits-bit digits, least    *)
(* significant first, the last digit not zero; zero is the empty sequence. *)
(***************************************************************************)
LimbBits == MantissaBits \div 4

Base == Pow2(LimbBits)

Limb(a, i) == IF i >= 1 /\ i <= Len(a) THEN a[i] ELSE 0

RECURSIVE BNorm(_)
BNorm(a) ==
  IF a = <<>> THEN <<>>
  ELSE IF a[Len(a)] # 0 THEN a
  ELSE BNorm(SubSeq(a, 1, Len(a) - 1))

RECURSIVE BFromNat(_)
BFromNat(n) == IF n = 0 THEN <<>> ELSE <<n % Base>> \o BFromNat(n \div Base)

RECURSIVE BAddFrom(_, _, _, _)
BAddFrom(a, b, i, carry) ==
  IF i > MaxOf(Len(a), Len(b))
  THEN (IF carry = 0 THEN <<>> ELSE <<carry>>)
  ELSE LET s == Limb(a, i) + Limb(b, i) + carry
       IN  <<s % Base>> \o BAddFrom(a, b, i + 1, s \div Base)

BAdd(a, b) == BAddFrom(a, b, 1, 0)

\* a - b for a >= b
RECURSIVE BSubFrom(_, _, _, _)
BSubFrom(a, b, i, borrow) ==
  IF i > Len(a) THEN <<>>
  ELSE LET d == Limb(a, i) - Limb(b, i) - borrow
       IN  <<d % Base>> \o BSubFrom(a, b, i + 1, IF d < 0 THEN 1 ELSE 0)

BSub(a, b) == BNorm(BSubFrom(a, b, 1, 0))

\* the sign of a - b
RECURSIVE BCmpFrom(_, _, _)
BCmpFrom(a, b, i) ==
  IF i = 0 THEN 0
  ELSE IF a[i] > b[i] THEN 1
  ELSE IF a[i] < b[i] THEN -1
  ELSE BCmpFrom(a, b, i - 1)

BCmp(a, b) ==
  IF Len(a) > Len(b) THEN 1
  ELSE IF Len(a) < Len(b) THEN -1
  ELSE BCmpFrom(a, b, Len(a))

\* a * k for a machine-size k >= 0 (k * Base fits a machine integer)
RECURSIVE BMulFrom(_, _, _, _)
BMulFrom(a, k, i, carry) ==
  IF i > Len(a) THEN BFromNat(carry)
  ELSE LET s == a[i] * k + carry
       IN  <<s % Base>> \o BMulFrom(a, k, i + 1, s \div Base)

BMulSmall(a, k) == IF k = 0 THEN <<>> ELSE BMulFrom(a, k, 1, 0)

BBitLen(a) ==
  IF a = <<>> THEN 0 ELSE LimbBits * (Len(a) - 1) + BitLen(a[Len(a)])

\* a * 2^n
BShl(a, n) ==
  IF a = <<>> \/ n <= 0 THEN a
  ELSE [i \in 1..(n \div LimbBits) |-> 0] \o BMulSmall(a, Pow2(n % LimbBits))

\* a \div 2^n
BShr(a, n) ==
  LET q == n \div LimbBits
      r == n % LimbBits
      t == SubSeq(a, q + 1, Len(a))
  IN  BNorm([i \in 1..Len(t) |->
               (t[i] \div Pow2(r)) + (Limb(t, i + 1) % Pow2(r)) * Pow2(LimbBits - r)])

\* bit n of a, bit 0 the least significant
BBit(a, n) == (Limb(a, n \div LimbBits + 1) \div Pow2(n % LimbBits)) % 2

\* whether a is a multiple of 2^n
BLowZero(a, n) ==
  /\ \A i \in 1..(n \div LimbBits) : Limb(a, i) = 0
  /\ Limb(a, n \div LimbBits + 1) % Pow2(n % LimbBits) = 0

\* how many times 2 divides a # 0
RECURSIVE BTrailingZeros(_, _)
BTrailingZeros(a, n) == IF BBit(a, n) = 1 THEN n ELSE BTrailingZeros(a, n + 1)

RECURSIVE FirstLimb(_, _)
FirstLimb(a, i) == IF a[i] # 0 THEN i ELSE FirstLimb(a, i + 1)

(***************************************************************************)
(* Exact dyadic numbers sg * mag * 2^ex in their one normal form (mag odd, *)
(* zero as 0 * 0 * 2^0), and the double nearest to one.                    *)
(***************************************************************************)
Dy(sg, mag, ex) ==
  IF mag = <<>> \/ sg = 0 THEN [sg |-> 0, mag |-> <<>>, ex |-> 0]
  ELSE LET tz == BTrailingZeros(mag, (FirstLimb(mag, 1) - 1) * LimbBits)
       IN  [sg |-> sg, mag |-> BShr(mag, tz), ex |-> ex + tz]

DFromInt(n) == Dy(SignInt(n), BFromNat(AbsInt(n)), 0)

DNeg(x) == [x EXCEPT !.sg = -x.sg]

DAbs(x) == [x EXCEPT !.sg = AbsInt(x.sg)]

\* x * 2^n
DScale(x, n) == IF x.sg = 0 THEN x ELSE [x EXCEPT !.ex = x.ex + n]

DMulInt(x, k) == Dy(x.sg * SignInt(k), BMulSmall(x.mag, AbsInt(k)), x.ex)

DAdd(x, y) ==
  IF x.sg = 0 THEN y
  ELSE IF y.sg = 0 THEN x
  ELSE LET ex == MinOf(x.ex, y.ex)
           a  == BShl(x.mag, x.ex - ex)
           b  == BShl(y.mag, y.ex - ex)
           c  == BCmp(a, b)
       IN  IF x.sg = y.sg THEN Dy(x.sg, BAdd(a, b), ex)
           ELSE IF c = 0 THEN Dy(0, <<>>, 0)
           ELSE IF c > 0 THEN Dy(x.sg, BSub(a, b), ex)
           ELSE Dy(y.sg, BSub(b, a), ex)

DSub(x, y) == DAdd(x, DNeg(y))

\* the sign of x - y
DCmp(x, y) == DSub(x, y).sg

\* Round sg * (mag + fraction) * 2^ex to MantissaBits significant bits, ties to
\* even; sticky says the fraction below mag's last bit is not zero. mag # <<>>.
Round53(sg, mag, ex, sticky) ==
  LET drop == BBitLen(mag) - MantissaBits
  IN  IF drop <= 0 THEN Dy(sg, mag, ex)
      ELSE LET kept == BShr(mag, drop)
               half == BBit(mag, drop - 1)
               rest == sticky \/ ~BLowZero(mag, drop - 1)
               up   == half = 1 /\ (rest \/ BBit(kept, 0) = 1)
           IN  Dy(sg, IF up THEN BAdd(kept, <<1>>) ELSE kept, ex + drop)

\* k digits of r / q (r < q), least significant first, and what is left
RECURSIVE DivFrac(_, _, _)
DivFrac(r, q, k) ==
  IF k = 0 THEN [digits |-> <<>>, rem |-> r]
  ELSE LET rest == DivFrac((r * Base) % q, q, k - 1)
       IN  [digits |-> rest.digits \o <<(r * Base) \div q>>, rem |-> rest.rem]

\* int / int (q > 0): Python's true division, the double nearest to p / q
FDivInt(p, q) ==
  IF p = 0 THEN Dy(0, <<>>, 0)
  ELSE LET n == AbsInt(p)
           k == (MantissaBits + 2 + BitLen(q)) \div LimbBits + 1
           f == DivFrac(n % q, q, k)
       IN  Round53(SignInt(p), BNorm(f.digits \o BFromNat(n \div q)),
                   -(k * LimbBits), f.rem # 0)

\* int * float: the int is converted exactly, the product rounded
FMulInt(c, x) ==
  IF c = 0 \/ x.sg = 0 THEN Dy(0, <<>>, 0)
  ELSE Round53(x.sg * SignInt(c), BMulSmall(x.mag, AbsInt(c)), x.ex, FALSE)

\* int - float
FSubInt(w, x) ==
  LET d == DSub(DFromInt(w), x)
  IN  IF d.sg = 0 THEN d ELSE Round53(d.sg, d.mag, d.ex, FALSE)

(***************************************************************************)
(* Text: a sequence of characters.  str.replace, str.strip, and json.loads *)
(* on the JSON the model's service can answer with: an object of string    *)
(* and integer members, or a bare string, integer or null.                 *)
(***************************************************************************)
WhiteSpace == {" ", "\n"}

Digits == <<"0", "1", "2", "3", "4", "5", "6", "7", "8", "9">>

DigitChars == {Digits[i] : i \in 1..Len(Digits)}

DigitValue(c) == (CHOOSE i \in 1..Len(Digits) : Digits[i] = c) - 1

\* str(n) for an int
RECURSIVE NatText(_)
NatText(n) ==
  IF n < Len(Digits) THEN <<Digits[n + 1]>>
  ELSE NatText(n \div Len(Digits)) \o <<Digits[(n % Len(Digits)) + 1]>>

IntText(n) == IF n < 0 THEN <<"-">> \o NatText(-n) ELSE NatText(n)

MatchAt(text, pat, i) ==
  /\ i + Len(pat) - 1 <= Len(text)
  /\ \A k \in 1..Len(pat) : text[i + k - 1] = pat[k]

\* text[from..] with every occurrence of pat removed: str.replace(pat, ""),
\* which takes the occurrences left to right, none overlapping another
RECURSIVE ReplaceFrom(_, _, _)
ReplaceFrom(text, pat, from) ==
  IF \A i \in from..Len(text) : ~MatchAt(text, pat, i)
  THEN SubSeq(text, from, Len(text))
  ELSE LET m == CHOOSE i \in from..Len(text) :
                  /\ MatchAt(text, pat, i)
                  /\ \A j \in from..(i - 1) : ~MatchAt(text, pat, j)
       IN  SubSeq(text, from, m - 1) \o ReplaceFrom(text, pat, m + Len(pat))

Replace(text, pat) == ReplaceFrom(text, pat, 1)

\* str.strip()
Strip(text) ==
  LET keep == {i \in 1..Len(text) : text[i] \notin WhiteSpace}
  IN  IF keep = {} THEN <<>>
      ELSE SubSeq(text, CHOOSE i \in keep : \A j \in keep : i <= j,
                        CHOOSE i \in keep : \A j \in keep : i >= j)

\* the backquote character, which a TLA+ string cannot hold
BackQuote == "BQ"

Fence == <<BackQuote, BackQuote, BackQuote>>

FenceJson == Fence \o <<"j", "s", "o", "n">>

\* the two replacements in the other order, which leaves the language tag
CleanTextFenceFirst(text) == Strip(Replace(Replace(text, Fence), FenceJson))

\* line 56: response.text.replace("```json", "").replace("```", "").strip()
CleanText(text) == Strip(Replace(Replace(text, FenceJson), Fence))

\* JSON values: t the type, n an int's value, s a string's characters, o an
\* object's members (a function from its keys)
JNull == [t |-> "null", n |-> 0, s |-> <<>>, o |-> <<>>]

JInt(n) == [t |-> "int", n |-> n, s |-> <<>>, o |-> <<>>]

JStr(s) == [t |-> "str", n |-> 0, s |-> s, o |-> <<>>]

JObj(o) == [t |-> "obj", n |-> 0, s |-> <<>>, o |-> o]

\* the first index >= i of text that holds no white space (Len + 1: none)
SkipWs(text, i) ==
  LET rest == {j \in i..Len(text) : text[j] \notin WhiteSpace}
  IN  IF rest = {} THEN Len(text) + 1 ELSE CHOOSE j \in rest : \A k \in rest : j <= k

ParseFail == [ok |-> FALSE, val |-> JNull, pos |-> 0]

RECURSIVE NatValue(_)
NatValue(ds) ==
  IF ds = <<>> THEN 0
  ELSE NatValue(SubSeq(ds, 1, Len(ds) - 1)) * Len(Digits) + DigitValue(ds[Len(ds)])

\* a string at text[i] = "\"": no escapes, no control characters
ParseString(text, i) ==
  LET ends == {j \in (i + 1)..Len(text) : text[j] = "\""}
  IN  IF ends = {} THEN ParseFail
      ELSE LET j == CHOOSE e \in ends : \A k \in ends : e <= k
               s == SubSeq(text, i + 1, j - 1)
           IN  IF \E k \in 1..Len(s) : s[k] \in {"\\", "\n"} THEN ParseFail
               ELSE [ok |-> TRUE, val |-> JStr(s), pos |-> j + 1]

\* an integer at text[i]: -? (0 | [1-9][0-9]*)
ParseInt(text, i) ==
  LET neg   == text[i] = "-"
      first == IF neg THEN i + 1 ELSE i
      stop  == {j \in first..(Len(text) + 1) :
                  j = Len(text) + 1 \/ text[j] \notin DigitChars}
      end   == CHOOSE j \in stop : \A k \in stop : j <= k
      ds    == SubSeq(text, first, end - 1)
  IN  IF ds = <<>> \/ (Len(ds) > 1 /\ ds[1] = "0") THEN ParseFail
      ELSE IF end <= Len(text) /\ text[end] \in {".", "e", "E"} THEN ParseFail
      ELSE [ok |-> TRUE, val |-> JInt(IF neg THEN -NatValue(ds) ELSE NatValue(ds)),
            pos |-> end]

NullText == <<"n", "u", "l", "l">>

ParseScalar(text, i) ==
  IF i > Len(text) THEN ParseFail
  ELSE IF text[i] = "\"" THEN ParseString(text, i)
  ELSE IF text[i] = "-" \/ text[i] \in DigitChars THEN ParseInt(text, i)
  ELSE IF MatchAt(text, NullText, i)
       THEN [ok |-> TRUE, val |-> JNull, pos |-> i + Len(NullText)]
  ELSE ParseFail

\* The members after "{" or ",", text[i] the first character of a key, sofar
\* the members read: a key, a colon, a value, then "}" or "," and the rest.
\* A repeated key keeps its last value.
RECURSIVE ParseMembers(_, _, _)
MemberEnd(text, o, e) ==
  IF e > Len(text) THEN ParseFail
  ELSE IF text[e] = "}" THEN [ok |-> TRUE, val |-> JObj(o), pos |-> e + 1]
  ELSE IF text[e] = "," THEN ParseMembers(text, SkipWs(text, e + 1), o)
  ELSE ParseFail

MemberValue(text, sofar, key, v) ==
  IF ~v.ok THEN ParseFail
  ELSE MemberEnd(text,
                 [k \in (DOMAIN sofar) \cup {key} |->
                    IF k = key THEN v.val ELSE sofar[k]],
                 SkipWs(text, v.pos))

MemberColon(text, sofar, key, c) ==
  IF c > Len(text) \/ text[c] # ":" THEN ParseFail
  ELSE MemberValue(text, sofar, key, ParseScalar(text, SkipWs(text, c + 1)))

MemberKey(text, sofar, k) ==
  IF ~k.ok THEN ParseFail
  ELSE MemberColon(text, sofar, k.val.s, SkipWs(text, k.pos))

ParseMembers(text, i, sofar) ==
  IF i > Len(text) \/ text[i] # "\"" THEN ParseFail
  ELSE MemberKey(text, sofar, ParseString(text, i))

ParseValue(text, i) ==
  IF i > Len(text) THEN ParseFail
  ELSE IF text[i] = "{"
       THEN LET m == SkipWs(text, i + 1)
            IN  IF m <= Len(text) /\ text[m] = "}"
                THEN [ok |-> TRUE, val |-> JObj(<<>>), pos |-> m + 1]
                ELSE ParseMembers(text, m, <<>>)
  ELSE ParseScalar(text, i)

\* json.loads(text): ok FALSE where it raises
WholeText(text, r) ==
  IF r.ok /\ SkipWs(text, r.pos) > Len(text) THEN r ELSE ParseFail

JsonLoads(text) == WholeText(text, ParseValue(text, SkipWs(text, 1)))

K_probability ==
  <<"p", "r", "o", "b", "a", "b", "i", "l", "i", "t", "y">>

K_reason == <<"r", "e", "a", "s", "o", "n">>

K_source == <<"s", "o", "u", "r", "c", "e">>

\* line 62
FallbackProbability == 5

FallbackReason ==
  <<"A", "I", " ", "F", "a", "i", "l", "e", "d", ",", " ", "u", "s", "i",
    "n", "g", " ", "a", "v", "e", "r", "a", "g", "e">>

FallbackSource ==
  <<"E", "s", "t", "i", "m", "a", "t", "i", "o", "n">>

ObjOf(p, r, s) ==
  [key \in {K_probability, K_reason, K_source} |->
     IF key = K_probability THEN p ELSE IF key = K_reason THEN r ELSE s]

FallbackEstimate ==
  JObj(ObjOf(JInt(FallbackProbability), JStr(FallbackReason), JStr(FallbackSource)))

\* what the function returns without a credential (line 31)
None == [t |-> "none", n |-> 0, s |-> <<>>, o |-> <<>>]

(***************************************************************************)
(* get_actuarial_data_from_llm(product_name), lines 25-62, against a       *)
(* service that answers the one generate_content call with reply: a text,  *)
(* or an exception (raised by the call or by response.text).  Yields what  *)
(* the function returns, how many calls it made to the service, and        *)
(* whether it reported an error with st.error.  The function neither       *)
(* raises nor keeps anything from one call to the next.                    *)
(***************************************************************************)
\* the call repeated once after it failed
ExceptRetried == [result |-> FallbackEstimate, calls |-> 2, error |-> TRUE]

\* the exception passed on to the caller, who gets no estimate
ExceptRaised ==
  [result |-> [t |-> "raised", n |-> 0, s |-> <<>>, o |-> <<>>],
   calls |-> 1, error |-> TRUE]

\* lines 60-62
Except == [result |-> FallbackEstimate, calls |-> 1, error |-> TRUE]

\* lines 57-58, data what json.loads made of the text
Return(data) ==
  IF data.ok THEN [result |-> data.val, calls |-> 1, error |-> FALSE] ELSE Except

\* the function without the test of line 30
EstimatorUnguarded(key, product_name, reply) ==
  IF reply.raises THEN Except ELSE Return(JsonLoads(CleanText(reply.text)))

Estimator(key, product_name, reply) ==
  IF key = "" THEN [result |-> None, calls |-> 0, error |-> FALSE]
  ELSE IF reply.raises THEN Except
  ELSE Return(JsonLoads(CleanText(reply.text)))

(***************************************************************************)
(* The evaluation part of the script, lines 115-136.                       *)
(***************************************************************************)
PercentBase == 100

\* line 115: item_cost * (prob_fail / 100)
ExpectedLoss(cost, prob) == FMulInt(cost, FDivInt(prob, PercentBase))

\* line 116: warranty_cost - expected_loss
NetCost(wcost, loss) == FSubInt(wcost, loss)

\* the float literal 0.05 of line 128: the double nearest to 5 / 100
TossUpPercent == 5

TossUpFraction == FDivInt(TossUpPercent, PercentBase)

\* the second comparison not strict
VerdictTossUpOnEqual(cost, wcost, loss, net) ==
  IF DCmp(loss, DFromInt(wcost)) > 0 THEN "BUY"
  ELSE IF DCmp(net, FMulInt(cost, TossUpFraction)) <= 0 THEN "TOSS_UP"
  ELSE "SKIP"

\* lines 126-131
Verdict(cost, wcost, loss, net) ==
  IF DCmp(loss, DFromInt(wcost)) > 0 THEN "BUY"
  ELSE IF DCmp(net, FMulInt(cost, TossUpFraction)) < 0 THEN "TOSS_UP"
  ELSE "SKIP"

\* the comparison not strict
HabitRuleOnEqual(wcost, loss) == DCmp(loss, DFromInt(wcost)) <= 0

\* line 134: whether the habit rule is written
HabitRule(wcost, loss) == DCmp(loss, DFromInt(wcost)) < 0

Evaluate(cost, wcost, prob) ==
  LET loss == ExpectedLoss(cost, prob)
      net  == NetCost(wcost, loss)
  IN  [expected_loss |-> loss, net_cost |-> net,
       verdict |-> Verdict(cost, wcost, loss, net),
       habit |-> HabitRule(wcost, loss)]

\* what is on the page of a pass that an exception ended before line 115
NotEvaluated ==
  [expected_loss |-> DFromInt(0), net_cost |-> DFromInt(0),
   verdict |-> "NONE", habit |-> FALSE]

(***************************************************************************)
(* The button's handler, lines 91-103.                                     *)
(***************************************************************************)
\* Python's truth value of what the estimator returned (line 97)
Truthy(v) ==
  \/ v.t = "obj" /\ DOMAIN v.o # {}
  \/ v.t = "int" /\ v.n # 0
  \/ v.t = "str" /\ v.s # <<>>

WaitingReason == [kind |-> "waiting", reason |-> JNull, source |-> JNull]

SimulatedReason == [kind |-> "simulated", reason |-> JNull, source |-> JNull]

\* line 102
SimulatedProbability == 12

NoReply == [raises |-> FALSE, text |-> <<>>]

NotCalled == [t |-> "notcalled", n |-> 0, s |-> <<>>, o |-> <<>>]

\* The handler with st.session_state as ss: the new session state, what the
\* estimator returned and did, and whether an exception left the handler
\* (ai_data[...] of lines 98-99 on something that is no dict, or lacks the key;
\* line 98 has then stored the probability if that was there).
StoreEstimate(ss, est) ==
  LET data == est.result
      out(s, f) == [ss |-> s, ai_data |-> data, calls |-> est.calls,
                    error |-> est.error, warning |-> FALSE, failed |-> f]
  IN  IF ~Truthy(data) THEN out(ss, FALSE)
      ELSE IF data.t # "obj" \/ K_probability \notin DOMAIN data.o
           THEN out(ss, TRUE)
      ELSE IF K_reason \notin DOMAIN data.o \/ K_source \notin DOMAIN data.o
           THEN out([ss EXCEPT !.prob_fail = data.o[K_probability]], TRUE)
      ELSE out([prob_fail |-> data.o[K_probability],
                reason |-> [kind |-> "ai", reason |-> data.o[K_reason],
                            source |-> data.o[K_source]]], FALSE)

ButtonHandler(key, product_name, reply, ss) ==
  IF key = ""
  THEN [ss |-> [prob_fail |-> JInt(SimulatedProbability), reason |-> SimulatedReason],
        ai_data |-> NotCalled, calls |-> 0, error |-> FALSE, warning |-> TRUE,
        failed |-> FALSE]
  ELSE StoreEstimate(ss, Estimator(key, product_name, reply))

(***************************************************************************)
(* The slider of line 107, st.slider(label, 0, 100, value).  Streamlit     *)
(* widens the bounds to hold an integer value outside them, takes no value *)
(* for the lower bound, and refuses a value that is no number.  The widget *)
(* keeps the position the user gave it for as long as it is created with   *)
(* the same arguments, and starts again at value when they change.         *)
(***************************************************************************)
SliderMin == 0

SliderMax == 100

SliderAccepts(value) == value.t \in {"int", "null"}

SliderDefault(value) == IF value.t = "int" THEN value.n ELSE SliderMin

SliderRange(arg) == MinOf(SliderMin, arg)..MaxOf(SliderMax, arg)

\* a slider that keeps its bounds and moves the value into them
SliderClamped(value, arg, pos) ==
  LET v == MaxOf(SliderMin, MinOf(SliderMax, SliderDefault(value)))
  IN  IF v = arg THEN [arg |-> arg, pos |-> pos] ELSE [arg |-> v, pos |-> v]

Slider(value, arg, pos) ==
  IF SliderDefault(value) = arg THEN [arg |-> arg, pos |-> pos]
  ELSE [arg |-> SliderDefault(value), pos |-> SliderDefault(value)]

VARIABLES
  api_key, item_name, item_cost, warranty_cost,   \* the input widgets
  session_state,                                  \* prob_fail and reason
  slider_arg, slider_pos,                         \* the slider widget
  button,                                         \* the last pass was a click
  reply, ai_data, made, st_error, st_warning,     \* the last pass's estimate
  calls,                                          \* calls to the service so far
  failed,                                         \* an exception ended the pass
  prob_fail, page                                 \* the last pass's evaluation

vars ==
  <<api_key, item_name, item_cost, warranty_cost, session_state, slider_arg,
    slider_pos, button, reply, ai_data, made, st_error, st_warning, calls,
    failed, prob_fail, page>>

DefaultName == "Sony WH-1000XM5 Headphones"

DefaultItemCost == 350

DefaultWarrantyCost == 60

NoKey == ""

\* the first run of the script: every widget at its default, lines 85-88
Init ==
  /\ api_key = NoKey
  /\ item_name = DefaultName
  /\ item_cost = DefaultItemCost
  /\ warranty_cost = DefaultWarrantyCost
  /\ session_state = [prob_fail |-> JInt(0), reason |-> WaitingReason]
  /\ slider_arg = 0
  /\ slider_pos = 0
  /\ button = FALSE
  /\ reply = NoReply
  /\ ai_data = NotCalled
  /\ made = 0
  /\ st_error = FALSE
  /\ st_warning = FALSE
  /\ calls = 0
  /\ failed = FALSE
  /\ prob_fail = 0
  /\ page = Evaluate(DefaultItemCost, DefaultWarrantyCost, 0)

\* The script from the slider on, lines 107-136, h what the button's handler
\* left (an exception in it ends the pass, as does one in the slider).
Render(key, name, cost, wcost, pressed, rep, pos, h) ==
  LET ok == ~h.failed /\ SliderAccepts(h.ss.prob_fail)
      sl == IF ok THEN Slider(h.ss.prob_fail, slider_arg, pos)
            ELSE [arg |-> slider_arg, pos |-> pos]
  IN  /\ api_key' = key
      /\ item_name' = name
      /\ item_cost' = cost
      /\ warranty_cost' = wcost
      /\ session_state' = h.ss
      /\ slider_arg' = sl.arg
      /\ slider_pos' = sl.pos
      /\ button' = pressed
      /\ reply' = IF pressed /\ h.calls > 0 THEN rep ELSE NoReply
      /\ ai_data' = h.ai_data
      /\ made' = h.calls
      /\ st_error' = h.error
      /\ st_warning' = h.warning
      /\ calls' = calls + h.calls
      /\ failed' = ~ok
      /\ prob_fail' = IF ok THEN sl.pos ELSE 0
      /\ page' = IF ok THEN Evaluate(cost, wcost, sl.pos) ELSE NotEvaluated

NotPressed ==
  [ss |-> session_state, ai_data |-> NotCalled, calls |-> 0, error |-> FALSE,
   warning |-> FALSE, failed |-> FALSE]

\* One run of the script, lines 12-136, with the widgets as given: pressed says
\* the button was clicked, rep is what the service does if it is called, pos is
\* where the slider stands.
Pass(key, name, cost, wcost, pressed, rep, pos) ==
  Render(key, name, cost, wcost, pressed, rep, pos,
         IF pressed THEN ButtonHandler(key, name, rep, session_state)
         ELSE NotPressed)

\* line 17: the user types or clears the key
SetApiKey(key) ==
  /\ key # api_key
  /\ Pass(key, item_name, item_cost, warranty_cost, FALSE, NoReply, slider_pos)

\* line 73
SetItemName(name) ==
  /\ name # item_name
  /\ Pass(api_key, name, item_cost, warranty_cost, FALSE, NoReply, slider_pos)

\* line 74
SetItemCost(cost) ==
  /\ cost # item_cost
  /\ Pass(api_key, item_name, cost, warranty_cost, FALSE, NoReply, slider_pos)

\* line 76
SetWarrantyCost(wcost) ==
  /\ wcost # warranty_cost
  /\ Pass(api_key, item_name, item_cost, wcost, FALSE, NoReply, slider_pos)

\* line 107: the user moves the slider, which is on the page
AdjustSlider(pos) ==
  /\ ~failed
  /\ pos \in SliderRange(slider_arg)
  /\ pos # slider_pos
  /\ Pass(api_key, item_name, item_cost, warranty_cost, FALSE, NoReply, pos)

MaxCalls == 2

\* line 91: the user clicks "Assess Risk with AI"
AssessRisk(rep) ==
  /\ api_key # NoKey => calls < MaxCalls
  /\ Pass(api_key, item_name, item_cost, warranty_cost, TRUE, rep, slider_pos)

(***************************************************************************)
(* What the service can answer.                                            *)
(***************************************************************************)
Raises == [raises |-> TRUE, text |-> <<>>]

Text(t) == [raises |-> FALSE, text |-> t]

Quoted(s) == <<"\"">> \o s \o <<"\"">>

Member(k, v) == Quoted(k) \o <<":", " ">> \o v

\* the object the prompt asks for
EstimateText(p, r, s) ==
  <<"{">> \o Member(K_probability, IntText(p)) \o <<",", " ">>
          \o Member(K_reason, Quoted(r)) \o <<",", " ">>
          \o Member(K_source, Quoted(s)) \o <<"}">>

NoSourceText(p, r) ==
  <<"{">> \o Member(K_probability, IntText(p)) \o <<",", " ">>
          \o Member(K_reason, Quoted(r)) \o <<"}">>

NoProbabilityText(r, s) ==
  <<"{">> \o Member(K_reason, Quoted(r)) \o <<",", " ">>
          \o Member(K_source, Quoted(s)) \o <<"}">>

Fenced(t) == FenceJson \o <<"\n">> \o t \o <<"\n">> \o Fence

SorryText == <<"S", "o", "r", "r", "y">>

\* an object whose reason holds a fence of its own
QuotedFenceText(p) ==
  EstimateText(p, <<"a">> \o Fence \o <<"b">>, <<"s">>)

\* text cut off before the object ends
CutText(p) == <<"{">> \o Member(K_probability, IntText(p))

\* a reply in a code fence, with and without the language tag and the line breaks
Wrappers ==
  <<[open |-> <<>>, close |-> <<>>],
    [open |-> FenceJson \o <<"\n">>, close |-> <<"\n">> \o Fence],
    [open |-> Fence \o <<"\n">>, close |-> <<"\n">> \o Fence],
    [open |-> FenceJson, close |-> Fence],
    [open |-> Fence, close |-> Fence]>>

Wrap(w, t) == Wrappers[w].open \o t \o Wrappers[w].close

Fences == 2..Len(Wrappers)

ObjectBodies ==
  {EstimateText(12, <<"r">>, <<"s">>), EstimateText(150, <<"r">>, <<"s">>),
   NoSourceText(7, <<"r">>), NoProbabilityText(<<"r">>, <<"s">>),
   QuotedFenceText(20), <<"{", "}">>}

GarbageBodies == {SorryText, CutText(12), <<>>}

AppKeys == {NoKey, "key"}

AppNames == {DefaultName, "MacBook Air M2"}

AppCosts == {100, DefaultItemCost}

AppWarranties == {7, DefaultWarrantyCost}

AppPositions == {17, SliderMax}

EstimateReply(p) == Text(EstimateText(p, <<"r">>, <<"s">>))

OutOfRange == {150, -5}

NoSourceEstimate == Text(NoSourceText(7, <<"r">>))

AppReplies ==
  {EstimateReply(p) : p \in OutOfRange} \cup
  {Raises, Text(SorryText), Text(Wrap(2, EstimateText(20, <<"r">>, <<"s">>))),
   NoSourceEstimate, Text(<<"{", "}">>)}

Next ==
  \/ \E key \in AppKeys : SetApiKey(key)
  \/ \E name \in AppNames : SetItemName(name)
  \/ \E cost \in AppCosts : SetItemCost(cost)
  \/ \E wcost \in AppWarranties : SetWarrantyCost(wcost)
  \/ \E pos \in AppPositions : AdjustSlider(pos)
  \/ \E rep \in AppReplies : AssessRisk(rep)

Spec == Init /\ [][Next]_vars

(***************************************************************************)
(* The evaluation alone: the item's cost in steps, the slider one step at  *)
(* a time over its whole range, the button never clicked.                  *)
(***************************************************************************)
CostStep == 50

MaxCostSteps == 7

EvalCosts == {k * CostStep : k \in -1..MaxCostSteps}

EvalWarranties == {0, 42, 49, DefaultWarrantyCost, 70}

NextEval ==
  \/ \E cost \in EvalCosts : SetItemCost(cost)
  \/ \E wcost \in EvalWarranties : SetWarrantyCost(wcost)
  \/ \E pos \in {slider_pos - 1, slider_pos + 1} : AdjustSlider(pos)

SpecEval == Init /\ [][NextEval]_vars

(***************************************************************************)
(* The estimator alone: get_actuarial_data_from_llm called with any        *)
(* product name, the key set or not, the service answering anything.       *)
(***************************************************************************)
Called(key, name, rep, est) ==
  /\ api_key' = key
  /\ item_name' = name
  /\ reply' = rep
  /\ ai_data' = est.result
  /\ made' = est.calls
  /\ st_error' = est.error
  /\ calls' = calls + est.calls
  /\ UNCHANGED <<item_cost, warranty_cost, session_state, slider_arg,
                 slider_pos, button, st_warning, failed, prob_fail, page>>

CallEstimator(key, name, rep) ==
  /\ key # NoKey => calls < MaxCalls
  /\ Called(key, name, rep, Estimator(key, name, rep))

EstReplies ==
  {Raises} \cup
  {Text(Wrap(w, b)) : w \in 1..Len(Wrappers), b \in ObjectBodies \cup GarbageBodies}

NextEst == \E key \in AppKeys, name \in AppNames, rep \in EstReplies :
             CallEstimator(key, name, rep)

SpecEst == Init /\ [][NextEst]_vars

(***************************************************************************)
(* The claims.                                                             *)
(***************************************************************************)
Loss == page.expected_loss

Net == page.net_cost

LossVsWarranty == DCmp(Loss, DFromInt(warranty_cost))

NetVsThreshold == DCmp(Net, FMulInt(item_cost, TossUpFraction))

\* C1 (as claimed): with expected_loss = item_cost * probability / 100, the
\* verdict is BUY if and only if expected_loss > warranty_cost, strictly: not
\* when the two are equal.
C1_BuyIffLossExceedsWarranty ==
  ~failed =>
    ((page.verdict = "BUY") <=> (item_cost * prob_fail > PercentBase * warranty_cost))

\* C2: a pass gives exactly one of BUY, TOSS_UP, SKIP; it is not BUY exactly
\* when the pass's expected_loss <= warranty_cost, and then it is TOSS_UP if and
\* only if net_cost = warranty_cost - expected_loss is strictly below
\* item_cost * 0.05, and SKIP otherwise; 350 against 60 is SKIP at 12% (net_cost
\* 18) and TOSS_UP at 17%.
C2_TossUpIffNetBelowThreshold ==
  ~failed =>
    /\ page.verdict \in {"BUY", "TOSS_UP", "SKIP"}
    /\ Net = NetCost(warranty_cost, Loss)
    /\ (page.verdict # "BUY") <=> (LossVsWarranty <= 0)
    /\ page.verdict # "BUY" =>
         /\ (page.verdict = "TOSS_UP") <=> (NetVsThreshold < 0)
         /\ (page.verdict = "SKIP") <=> (NetVsThreshold >= 0)
    /\ (item_cost = 350 /\ warranty_cost = 60 /\ prob_fail = 12)
         => (page.verdict = "SKIP" /\ Net = DFromInt(18))
    /\ (item_cost = 350 /\ warranty_cost = 60 /\ prob_fail = 17)
         => page.verdict = "TOSS_UP"

\* C2 witness: net_cost exactly item_cost * 0.05, which is SKIP
C2_NetAtThreshold ==
  ~failed /\ item_cost > 0 /\ NetVsThreshold = 0 /\ page.verdict = "SKIP"

\* C3: called without a key, the estimator returns None and makes no call to
\* the service, whatever the product name and whatever the service would say.
C3_NoKeyNoCall ==
  [][api_key' = NoKey => (ai_data' = None /\ made' = 0 /\ calls' = calls /\ ~st_error')]_vars

\* C3 witness: the estimator was called without a key for the second product
C3_CalledWithoutKey ==
  api_key = NoKey /\ ai_data = None /\ item_name # DefaultName /\ reply = Raises

Unparsable(rep) ==
  \/ rep.raises
  \/ \E w \in 1..Len(Wrappers), b \in GarbageBodies : rep = Text(Wrap(w, b))

\* C4: with a key, when the service raises or answers text that is no JSON, the
\* estimator returns (it raises nothing) exactly the fallback estimate of line
\* 62, having reported the error.
C4_FallbackOnFailure ==
  (ai_data # NotCalled /\ api_key # NoKey /\ Unparsable(reply)) =>
    /\ ai_data = FallbackEstimate
    /\ ai_data.o[K_probability] = JInt(5)
    /\ st_error

\* C4 witness: a fenced answer that is no JSON gave the fallback
C4_GarbageGaveFallback ==
  api_key # NoKey /\ reply = Text(Wrap(2, SorryText)) /\ ai_data = FallbackEstimate

\* C5 (as claimed): an answer that parses but lacks one of the three keys is
\* caught in the estimator: the pass does not fail, and the estimate is the
\* fallback.
C5_MissingKeyFallsBack ==
  (button /\ api_key # NoKey /\ reply = NoSourceEstimate) =>
    (~failed /\ ai_data = FallbackEstimate /\ page.verdict # "NONE")

\* C6: for a valid JSON object text, the estimator's result on that text inside
\* a code fence (with or without the json tag) is its result on the text alone.
C6_FenceMakesNoDifference ==
  \A w \in Fences, b \in ObjectBodies :
    (ai_data # NotCalled /\ api_key # NoKey /\ reply = Text(Wrap(w, b))) =>
      /\ ai_data = Estimator(api_key, item_name, Text(b)).result
      /\ ai_data.t = "obj"
      /\ ~st_error

\* C6 witness: a fenced object whose reason holds a fence of its own
C6_FencedObjectParsed ==
  /\ api_key # NoKey
  /\ reply = Text(Wrap(2, QuotedFenceText(20)))
  /\ ai_data.t = "obj"
  /\ ai_data.o[K_probability] = JInt(20)

Returned(p) == JObj(ObjOf(JInt(p), JStr(<<"r">>), JStr(<<"s">>)))

C8_OneCallEach ==
  [][api_key' # NoKey => (made' = 1 /\ calls' = calls + 1)]_vars

\* C8 witness: a call that failed, made after an earlier call
C8_SecondCallFailed ==
  api_key # NoKey /\ calls = 2 /\ made = 1 /\ st_error /\ reply = Raises

InClaimedRange == ~failed /\ item_cost >= 0 /\ prob_fail \in SliderMin..SliderMax

MonotoneInProbability ==
  prob_fail < SliderMax =>
    DCmp(Loss, ExpectedLoss(item_cost, prob_fail + 1)) <= 0

MonotoneInCost ==
  /\ DCmp(Loss, ExpectedLoss(item_cost + 1, prob_fail)) <= 0
  /\ DCmp(Loss, ExpectedLoss(item_cost + CostStep, prob_fail)) <= 0

\* C9 (as claimed): for item_cost >= 0 and probability in [0,100],
\* expected_loss equals item_cost * probability / 100 (the float that expression
\* gives), and does not decrease as the probability or the cost grows.
C9_LossIsExact ==
  InClaimedRange =>
    /\ Loss = FDivInt(item_cost * prob_fail, PercentBase)
    /\ MonotoneInProbability
    /\ MonotoneInCost

\* C10: the habit rule is written if and only if expected_loss < warranty_cost,
\* strictly: never with BUY, not when the two are equal, and with every SKIP of
\* an item_cost above zero.
C10_HabitIffLossBelowWarranty ==
  ~failed =>
    /\ page.habit <=> (LossVsWarranty < 0)
    /\ page.verdict = "BUY" => ~page.habit
    /\ LossVsWarranty = 0 => ~page.habit
    /\ (item_cost > 0 /\ page.verdict = "SKIP") => page.habit

\* C10 witness: a SKIP of an item that costs something and may fail, with its
\* habit rule
C10_SkipWithHabit ==
  /\ ~failed /\ item_cost > 0 /\ prob_fail > 0 /\ LossVsWarranty < 0
  /\ page.verdict = "SKIP" /\ page.habit

====
